---- MODULE Spec2Model ----
(***************************************************************************)
(* A state-machine model of xla/service/gpu/spir_compiler.cc:              *)
(*   - the Binary Emitter: MaybeLoadLLVMFromFile and                       *)
(*     SPIRCompiler::CompileTargetBinary (specification Spec);             *)
(*   - the Post-Layout Stage: SPIRCompiler::OptimizeHloPostLayoutAssignment*)
(*     (specification SpecPostLayout).                                     *)
(* Library calls whose code is outside the file (parseIRFile,              *)
(* spir::CompileToSpir, the HLO passes, the base compiler's optimizer)     *)
(* are nondeterministic choices over their possible outcomes.              *)
(***************************************************************************)
EXTENDS Integers, Sequences, FiniteSets, TLC

(***************************************************************************)
(* Bounds of the model.                                                    *)
(***************************************************************************)
\* Longest override candidate list (xla_gpu_llvm_ir_file) explored.
MaxFiles == 2
\* Longest text returned by the lowering routine explored.
MaxSpirLen == 2
\* The iteration cap of a fixed-point runner (HloPassFix).
IterationCap == 2

\* uint8_t holds values modulo 2^8.
Uint8Mod == 256

(***************************************************************************)
(* Input domains.  A file name and a name prefix are sequences of          *)
(* characters; "/" is the path separator.                                  *)
(***************************************************************************)
FileNames ==
    { <<"a">>, <<"b">>, <<"a", "b">>, <<"/", "a">>,
      <<"a", "/", "b">>, <<"b", "/", "a", "b">> }

Prefixes == { <<"a">>, <<"b">>, <<"a", "b">> }

\* Characters (as signed char values) the lowering routine's text is made of.
SpirChars == { -1, 83 }

\* Statuses the lowering routine can fail with.
LoweringErrors == { "INTERNAL", "UNIMPLEMENTED" }

SeqsUpTo(S, n) == UNION { [1..k -> S] : k \in 0..n }

Range(s) == { s[i] : i \in 1..Len(s) }

VARIABLES
    \* ---- inputs of CompileTargetBinary
    debug_module,          \* TRUE iff the debug_module pointer is non-null
    prefix,                \* FilenameFor(*module, "", "") of the compiled module
    xla_gpu_llvm_ir_file,  \* debug option: the override candidate list
    valid_ir,              \* file store: the candidates that parse as LLVM IR
    \* ---- the call's position and locals
    pc,
    matched,               \* index found by c_find_if; Len+1 is std::end; 0 before
    loaded_module,         \* << >> (null) or << the file the module was parsed from >>
    selected_module,       \* "unset", "llvm_module" or "loaded_module"
    spir,                  \* the std::string spir
    ret,                   \* the call's result
    \* ---- what the call has done so far
    advisory,              \* the "did not found a LLVM file to load" log line
    parsed_files,          \* the arguments of the calls of llvm::parseIRFile
    lowering_calls,        \* the modules handed to spir::CompileToSpir
    lowering_result,       \* what spir::CompileToSpir returned
    prev_matched           \* matched of the previous call on these inputs, -1 if none

VARIABLES
    \* ---- inputs of OptimizeHloPostLayoutAssignment
    env_MHA,               \* the environment variable MHA
    xla_gpu_normalize_layouts,     \* debug option
    xla_gpu_enable_fast_min_max,   \* debug option
    hlo_module,            \* the graph: which kinds of node it holds
    \* ---- the call's position and locals
    pl_pc,                 \* "idle", "start", a stage of StageOrder, "return", "ok", "error", "aborted"
    use_mha,
    alg_sim_options,       \* the AlgebraicSimplifierOptions of the MHA pipeline
    pl_idx,                \* position in the running pipeline's pass list
    pl_status,             \* the Status returned, "none" before the return
    \* ---- what the call has done so far
    pl_trace,              \* the passes and external calls applied, in order
    base_status,           \* result of the base compiler's optimizer, "none" if not called
    algsimp_runs,          \* the options of each algebraic-simplifier run, in order
    pl_failed,             \* << >>, or << the stage and pass (or call) that failed >>
    pl_verifier_runs       \* the invariant-checker runs: pipeline and point

VARIABLES
    \* ---- inputs of OptimizeHloConvolutionCanonicalization
    gpu_version,           \* the target capability: does it support bf16 convolutions
    canon_hlo_module,      \* the graph, rewritten in place
    \* ---- the call's position and locals
    cn_pc,                 \* "idle", "start", "run", "finish", "ok", "error"
    conv_bf16_support,     \* the ConvBfloat16Support object, << >> before it is built
    cn_member,             \* position in the pipeline's member list
    cn_iter,               \* iteration of the member's fixed-point loop
    cn_body,               \* position in a sub-pipeline's pass list
    cn_sub,                \* iteration of a fixed-point pass inside a sub-pipeline
    cn_iter_changed,       \* has the sub-pipeline's current iteration changed the graph
    cn_status,             \* the Status returned, "none" before the return
    \* ---- what the call has done so far
    cn_trace,              \* the pass applications, in order
    cn_loops,              \* the fixed-point loops that have stopped
    cn_verifier_runs,      \* the invariant-checker runs: pipeline and point
    cn_policy_queries,     \* what FloatNormalization asked the policy object
    cn_input,              \* the graph the caller passed in
    cn_run,                \* 1, or 2 when the stage runs again on its own output
    cn_first               \* << >>, or << the first run's outcome >>

canon_vars ==
    << gpu_version, canon_hlo_module, cn_pc, conv_bf16_support, cn_member,
       cn_iter, cn_body, cn_sub, cn_iter_changed, cn_status, cn_trace,
       cn_loops, cn_verifier_runs, cn_policy_queries, cn_input, cn_run,
       cn_first >>

pl_vars ==
    << env_MHA, xla_gpu_normalize_layouts, xla_gpu_enable_fast_min_max,
       hlo_module, pl_pc, use_mha, alg_sim_options, pl_idx, pl_status,
       pl_trace, base_status, algsimp_runs, pl_failed, pl_verifier_runs >>

emit_vars ==
    << debug_module, prefix, xla_gpu_llvm_ir_file, valid_ir, pc, matched,
       loaded_module, selected_module, spir, ret, advisory, parsed_files,
       lowering_calls, lowering_result, prev_matched >>

vars == << emit_vars, pl_vars, canon_vars >>

(***************************************************************************)
(* tsl::io::Basename: the part of the path after its last "/".             *)
(***************************************************************************)
LastSlash(path) ==
    LET idx == { i \in 1..Len(path) : path[i] = "/" }
    IN  IF idx = {} THEN 0 ELSE CHOOSE i \in idx : \A j \in idx : j <= i

Basename(path) == SubSeq(path, LastSlash(path) + 1, Len(path))

\* absl::StartsWith(text, pre)
StartsWith(text, pre) ==
    /\ Len(text) >= Len(pre)
    /\ SubSeq(text, 1, Len(pre)) = pre

\* A bug: the candidate's basename must equal the prefix.
CandidateMatchesExact(full_filename, pre) == Basename(full_filename) = pre

\* The predicate handed to c_find_if.
CandidateMatches(full_filename, pre) ==
    StartsWith(Basename(full_filename), pre)

\* absl::c_find_if from position i: the first index whose element satisfies
\* the predicate, Len(files) + 1 (std::end) when none does.
RECURSIVE FindIfFrom(_, _, _)
FindIfFrom(files, pre, i) ==
    IF i > Len(files) THEN Len(files) + 1
    ELSE IF CandidateMatches(files[i], pre) THEN i
    ELSE FindIfFrom(files, pre, i + 1)

FindMatch(files, pre) == FindIfFrom(files, pre, 1)

End(files) == Len(files) + 1

\* llvm::parseIRFile: the module read from the file when it holds valid IR,
\* a null unique_ptr (the empty sequence) otherwise.
ParseIRFile(name) == IF name \in valid_ir THEN << name >> ELSE << >>

\* A bug: the null test is missing, so the lookup runs without a module.
ModuleNullTestMissing(dm) == FALSE

\* if (module == nullptr) return nullptr;
ModuleIsNull(dm) == ~dm

\* A bug: the comparison with std::end is inverted, so the advisory is
\* logged when a candidate matched.
NoFileToLoadInverted(files, m) == files # << >> /\ m # End(files)

\* A bug: the emptiness test is dropped, so an empty list is reported too.
NoFileToLoadIgnoringEmpty(files, m) == m = End(files)

\* The condition of the advisory log line: the list is non-empty and
\* c_find_if returned std::end.
NoFileToLoad(files, m) == files # << >> /\ m = End(files)

\* A bug: a file that does not parse is skipped and the call goes on.
AfterParseFallback(parsed) == "loaded"

\* if (!loaded_module) LOG(FATAL): the process ends; otherwise the loaded
\* module is returned to CompileTargetBinary.
AfterParse(parsed) == IF parsed = << >> THEN "aborted" ELSE "loaded"

\* A bug: the in-memory module is selected even when an override was loaded.
SelectModuleIgnoringOverride(loaded) == "llvm_module"

\* selected_module: the loaded module when there is one, else llvm_module.
SelectModule(loaded) ==
    IF loaded # << >> THEN "loaded_module" ELSE "llvm_module"

\* A bug: the lowering routine is invoked whatever debug_module is.
EmissionAlways(dm) == TRUE

\* if (debug_module): whether spir::CompileToSpir is invoked.
EmissionEnabled(dm) == dm

\* static_cast<uint8_t>(char)
ToUint8(c) == c % Uint8Mod

\* A bug: the bytes are copied in reverse order.
SpirBinReversed(text) == [i \in 1..Len(text) |-> ToUint8(text[Len(text) + 1 - i])]

\* std::vector<uint8_t> spir_bin(spir.begin(), spir.end())
SpirBin(text) == [i \in 1..Len(text) |-> ToUint8(text[i])]

NoResult == [kind |-> "none", metadata |-> "", binary |-> << >>, status |-> "OK"]

\* The returned std::pair<std::string, std::vector<uint8_t>>.
OkResult(meta, bin) ==
    [kind |-> "ok", metadata |-> meta, binary |-> bin, status |-> "OK"]

ErrorResult(status) ==
    [kind |-> "error", metadata |-> "", binary |-> << >>, status |-> status]

\* A bug: a failure of the lowering routine is swallowed and an empty binary
\* is returned.
SwallowLoweringError(status) == OkResult("", << >>)

\* TF_ASSIGN_OR_RETURN: a failed StatusOr returns its status from the call.
ReturnIfError(status) == ErrorResult(status)

(***************************************************************************)
(* Initial states: the arguments of a call and the state of the file store.*)
(***************************************************************************)
EmitInit ==
    /\ debug_module \in BOOLEAN
    /\ prefix \in Prefixes
    /\ xla_gpu_llvm_ir_file \in SeqsUpTo(FileNames, MaxFiles)
    /\ valid_ir \in SUBSET Range(xla_gpu_llvm_ir_file)
    /\ pc = "call"
    /\ matched = 0
    /\ loaded_module = << >>
    /\ selected_module = "unset"
    /\ spir = << >>
    /\ ret = NoResult
    /\ advisory = FALSE
    /\ parsed_files = << >>
    /\ lowering_calls = << >>
    /\ lowering_result = NoResult
    /\ prev_matched = -1

(***************************************************************************)
(* MaybeLoadLLVMFromFile(debug_module, llvm_module), called at the start   *)
(* of CompileTargetBinary.  LOG(FATAL) ends the process: pc = "aborted".   *)
(***************************************************************************)
MaybeLoadLLVMFromFile ==
    /\ UNCHANGED << pl_vars, canon_vars >>
    /\ pc = "call"
    /\ IF ModuleIsNull(debug_module)
       THEN \* module == nullptr: return nullptr
            /\ pc' = "loaded"
            /\ UNCHANGED << matched, loaded_module, advisory, parsed_files >>
       ELSE LET m == FindMatch(xla_gpu_llvm_ir_file, prefix) IN
            /\ matched' = m
            /\ advisory' = NoFileToLoad(xla_gpu_llvm_ir_file, m)
            /\ IF m # End(xla_gpu_llvm_ir_file)
               THEN LET parsed == ParseIRFile(xla_gpu_llvm_ir_file[m]) IN
                    /\ parsed_files' = Append(parsed_files, xla_gpu_llvm_ir_file[m])
                    /\ loaded_module' = parsed
                    /\ pc' = AfterParse(parsed)
               ELSE /\ pc' = "loaded"
                    /\ UNCHANGED << loaded_module, parsed_files >>
    /\ UNCHANGED << debug_module, prefix, xla_gpu_llvm_ir_file, valid_ir,
                    selected_module, spir, ret, lowering_calls,
                    lowering_result, prev_matched >>

(***************************************************************************)
(* CompileTargetBinary after the lookup: the choice of selected_module.    *)
(***************************************************************************)
ChooseSelectedModule ==
    /\ UNCHANGED << pl_vars, canon_vars >>
    /\ pc = "loaded"
    /\ selected_module' = SelectModule(loaded_module)
    /\ pc' = "selected"
    /\ UNCHANGED << debug_module, prefix, xla_gpu_llvm_ir_file, valid_ir,
                    matched, loaded_module, spir, ret, advisory, parsed_files,
                    lowering_calls, lowering_result, prev_matched >>

(***************************************************************************)
(* if (debug_module) TF_ASSIGN_OR_RETURN(spir, spir::CompileToSpir(...)):  *)
(* the routine returns a text, which is assigned to spir.                  *)
(***************************************************************************)
CompileToSpirOk ==
    /\ UNCHANGED << pl_vars, canon_vars >>
    /\ pc = "selected"
    /\ EmissionEnabled(debug_module)
    /\ \E text \in SeqsUpTo(SpirChars, MaxSpirLen) :
        /\ lowering_result' = OkResult("", text)
        /\ spir' = text
    /\ lowering_calls' = Append(lowering_calls, selected_module)
    /\ pc' = "compiled"
    /\ UNCHANGED << debug_module, prefix, xla_gpu_llvm_ir_file, valid_ir,
                    matched, loaded_module, selected_module, ret, advisory,
                    parsed_files, prev_matched >>

\* The routine fails: TF_ASSIGN_OR_RETURN returns from CompileTargetBinary.
CompileToSpirFail ==
    /\ UNCHANGED << pl_vars, canon_vars >>
    /\ pc = "selected"
    /\ EmissionEnabled(debug_module)
    /\ \E status \in LoweringErrors :
        /\ lowering_result' = ErrorResult(status)
        /\ ret' = ReturnIfError(status)
    /\ lowering_calls' = Append(lowering_calls, selected_module)
    /\ pc' = "done"
    /\ UNCHANGED << debug_module, prefix, xla_gpu_llvm_ir_file, valid_ir,
                    matched, loaded_module, selected_module, spir, advisory,
                    parsed_files, prev_matched >>

\* debug_module is null: the lowering routine is not invoked.
SkipEmission ==
    /\ UNCHANGED << pl_vars, canon_vars >>
    /\ pc = "selected"
    /\ ~EmissionEnabled(debug_module)
    /\ pc' = "compiled"
    /\ UNCHANGED << debug_module, prefix, xla_gpu_llvm_ir_file, valid_ir,
                    matched, loaded_module, selected_module, spir, ret,
                    advisory, parsed_files, lowering_calls, lowering_result,
                    prev_matched >>

(***************************************************************************)
(* return std::pair("", spir_bin)                                          *)
(***************************************************************************)
ReturnBinary ==
    /\ UNCHANGED << pl_vars, canon_vars >>
    /\ pc = "compiled"
    /\ ret' = OkResult("", SpirBin(spir))
    /\ pc' = "done"
    /\ UNCHANGED << debug_module, prefix, xla_gpu_llvm_ir_file, valid_ir,
                    matched, loaded_module, selected_module, spir, advisory,
                    parsed_files, lowering_calls, lowering_result,
                    prev_matched >>

(***************************************************************************)
(* The caller calls CompileTargetBinary again with the same arguments and  *)
(* the same file store; the previous call's lookup result is remembered.   *)
(***************************************************************************)
CallAgain ==
    /\ UNCHANGED << pl_vars, canon_vars >>
    /\ pc = "done"
    /\ prev_matched' = matched
    /\ pc' = "call"
    /\ matched' = 0
    /\ loaded_module' = << >>
    /\ selected_module' = "unset"
    /\ spir' = << >>
    /\ ret' = NoResult
    /\ advisory' = FALSE
    /\ parsed_files' = << >>
    /\ lowering_calls' = << >>
    /\ lowering_result' = NoResult
    /\ UNCHANGED << debug_module, prefix, xla_gpu_llvm_ir_file, valid_ir >>

EmitNext ==
    \/ MaybeLoadLLVMFromFile
    \/ ChooseSelectedModule
    \/ CompileToSpirFail
    \/ CompileToSpirOk
    \/ SkipEmission
    \/ ReturnBinary
    \/ CallAgain


(***************************************************************************)
(* The Post-Layout Stage: SPIRCompiler::OptimizeHloPostLayoutAssignment.   *)
(***************************************************************************)
\* Values of the environment variable MHA explored.
EnvValues == { "unset", "1", "false", "maybe" }

\* Statuses a pass or the base compiler's optimizer can fail with.
PassErrors == { "INTERNAL" }

BaseOptimizer == "GpuCompiler::OptimizeHloPostLayoutAssignment"

\* tsl::ReadBoolFromEnvVar(name, default_val, &value): the default when the
\* variable is unset, the parsed value of "0"/"false"/"1"/"true", and an
\* InvalidArgument status for anything else.
ReadBoolFromEnvVar(env, default_val) ==
    CASE env = "unset" -> [ok |-> TRUE, value |-> default_val]
      [] env \in {"1", "true"} -> [ok |-> TRUE, value |-> TRUE]
      [] env \in {"0", "false"} -> [ok |-> TRUE, value |-> FALSE]
      [] OTHER -> [ok |-> FALSE, value |-> default_val]

\* A bug: the MHA pipeline is built and run whatever the flag is.
RunsMhaPipelineAlways(flag) == TRUE

\* if (use_mha)
RunsMhaPipeline(flag) == flag

\* A bug: NaN propagation follows the fast-min-max flag instead of its
\* negation.
AlgSimOptionsNanFollowsFlag(fast_min_max) ==
    [ supports_non_canonical_dots |-> FALSE,
      is_layout_sensitive |-> TRUE,
      enable_conv_operand_swap |-> FALSE,
      minmax_propagate_nan |-> fast_min_max,
      enable_unconditional_reduce_of_concat_replacement |-> FALSE ]

\* The options set on alg_sim_options.
AlgSimOptions(fast_min_max) ==
    [ supports_non_canonical_dots |-> FALSE,
      is_layout_sensitive |-> TRUE,
      enable_conv_operand_swap |-> FALSE,
      minmax_propagate_nan |-> ~fast_min_max,
      enable_unconditional_reduce_of_concat_replacement |-> FALSE ]

DefaultAlgSimOptions == [ unset |-> TRUE ]

\* The passes added to mha_fusion_pipeline, in order.
MhaPasses(normalize_layouts) ==
    (IF normalize_layouts
     THEN << "ReshapeDecomposer", "LayoutNormalization" >>
     ELSE << >>)
    \o << "HloCSE", "HloPassFix<AlgebraicSimplifier>", "HloCSE", "HloDCE",
          "CudnnFusedMHARewriter", "AlgebraicSimplifier", "HloDCE", "HloCSE" >>

\* The passes added to pre_pipeline, in order.
PrePasses == << "DotDimensionMerger", "HloConstantFolding" >>

\* The passes added to post_pipeline.
PostPasses == << "TriangularSolveRewriter" >>

\* A bug: the triangular-solve pipeline runs before the base compiler's
\* optimizer.
StageOrderPostFirst == << "mha", "pre", "post", "base" >>

\* The order in which the function runs its pipelines and the base
\* compiler's optimizer.
StageOrder == << "mha", "pre", "base", "post" >>

StageIndex(stage) == CHOOSE i \in 1..Len(StageOrder) : StageOrder[i] = stage

\* Where control goes when a stage has succeeded: the next stage, or the
\* final return OkStatus().
AfterStage(stage) ==
    IF StageIndex(stage) = Len(StageOrder)
    THEN "return"
    ELSE StageOrder[StageIndex(stage) + 1]

\* The graphs a successful pass can leave behind.  Only the node kinds the
\* stage is concerned with are tracked: the multi-head-attention pattern and
\* its fused custom call, triangular-solve operations and their custom call.
PassResults(pass, g) ==
    CASE pass = "CudnnFusedMHARewriter" ->
           IF g.mha_pattern
           THEN { g, [g EXCEPT !.mha_pattern = FALSE, !.fmha_call = TRUE] }
           ELSE { g }
      [] pass = "TriangularSolveRewriter" ->
           IF g.triangular_solve
           THEN { [g EXCEPT !.triangular_solve = FALSE,
                            !.triangular_solve_call = TRUE] }
           ELSE { g }
      [] OTHER -> { g }

\* A pass with a defect can also leave a structurally malformed graph.
PassOutcomes(pass, g) ==
    PassResults(pass, g)
        \cup { [r EXCEPT !.well_formed = FALSE] : r \in PassResults(pass, g) }

\* The names the function gives its pipelines.
PipelineName(stage) ==
    CASE stage = "mha" -> "multi-headed attention fusion"
      [] stage = "pre" -> "spir post-layout_assignment part 1"
      [] stage = "post" -> "spir post-layout_assignment part 2"
      [] OTHER -> "conv_canonicalization"

\* The invariant checkers the code adds to each pipeline: the HloVerifier of
\* conv_canonicalization (AddInvariantCheckerDebug: debug builds, which is
\* the build modelled); none is added to the post-layout pipelines.
InvariantCheckers(pipeline) ==
    IF pipeline = "conv_canonicalization" THEN << "HloVerifier" >> ELSE << >>

\* The pipeline engine runs a pipeline's invariant checkers at the
\* pipeline's boundaries: the run is recorded, and a malformed graph is
\* rejected with an error.
VerifiedAt(pipeline, point, runs) ==
    IF InvariantCheckers(pipeline) # << >>
    THEN Append(runs, [pipeline |-> pipeline, at |-> point])
    ELSE runs

Rejects(pipeline, g) == InvariantCheckers(pipeline) # << >> /\ ~g.well_formed

VerifierError == "INTERNAL: verifier"

IsSimplifier(pass) ==
    pass \in {"AlgebraicSimplifier", "HloPassFix<AlgebraicSimplifier>"}

\* A bug: a failed pipeline is skipped and the function goes on with the
\* next stage.
AfterFailureContinue(stage) ==
    IF stage = "canon" THEN "run"
    ELSE IF stage = "post" THEN "return"
    ELSE IF stage = "base" THEN "post"
    ELSE IF stage = "pre" THEN "base" ELSE "pre"

\* TF_RETURN_IF_ERROR: a failed Run or a failed base optimizer returns its
\* status from the function.
AfterFailure(stage) == "error"

\* The graphs the base compiler's optimizer can leave behind: it may
\* introduce or remove triangular-solve operations.
BaseResults(g) == { [g EXCEPT !.triangular_solve = b] : b \in BOOLEAN }

PLInit ==
    /\ env_MHA \in EnvValues
    /\ xla_gpu_normalize_layouts \in BOOLEAN
    /\ xla_gpu_enable_fast_min_max \in BOOLEAN
    /\ hlo_module \in [ mha_pattern : BOOLEAN, fmha_call : {FALSE},
                        triangular_solve : BOOLEAN,
                        triangular_solve_call : {FALSE},
                        well_formed : {TRUE} ]
    /\ pl_pc = "start"
    /\ use_mha = TRUE
    /\ alg_sim_options = DefaultAlgSimOptions
    /\ pl_idx = 1
    /\ pl_status = "none"
    /\ pl_trace = << >>
    /\ base_status = "none"
    /\ algsimp_runs = << >>
    /\ pl_failed = << >>
    /\ pl_verifier_runs = << >>

\* TF_CHECK_OK(ReadBoolFromEnvVar("MHA", true, &use_mha)) and the test of
\* use_mha with the construction of the MHA pipeline's options.
ReadMHAFlag ==
    /\ UNCHANGED << emit_vars, canon_vars >>
    /\ pl_pc = "start"
    /\ LET r == ReadBoolFromEnvVar(env_MHA, TRUE) IN
       IF ~r.ok
       THEN \* TF_CHECK_OK fails: the process ends
            /\ pl_pc' = "aborted"
            /\ UNCHANGED << use_mha, alg_sim_options >>
       ELSE /\ use_mha' = r.value
            /\ IF RunsMhaPipeline(r.value)
               THEN /\ alg_sim_options' = AlgSimOptions(xla_gpu_enable_fast_min_max)
                    /\ pl_pc' = "mha"
               ELSE /\ UNCHANGED alg_sim_options
                    /\ pl_pc' = AfterStage("mha")
    /\ UNCHANGED << env_MHA, xla_gpu_normalize_layouts,
                    xla_gpu_enable_fast_min_max, hlo_module, pl_idx,
                    pl_status, pl_trace, base_status, algsimp_runs,
                    pl_failed, pl_verifier_runs >>

\* One pass of a running pipeline.  HloPassPipeline::Run runs the pipeline's
\* invariant checkers at its start and its end, applies the passes in order
\* and stops at the first that fails; TF_RETURN_IF_ERROR then returns that
\* status from the function.
RunPass(stage, passes) ==
    LET name == PipelineName(stage)
        pass == passes[pl_idx]
        first == pl_idx = 1
        last == pl_idx = Len(passes)
        runs0 == IF first
                 THEN VerifiedAt(name, "start", pl_verifier_runs)
                 ELSE pl_verifier_runs
    IN
    /\ pl_idx <= Len(passes)
    /\ IF first /\ Rejects(name, hlo_module)
       THEN /\ pl_verifier_runs' = runs0
            /\ pl_status' = VerifierError
            /\ pl_pc' = "error"
            /\ UNCHANGED << hlo_module, pl_idx, pl_trace, algsimp_runs,
                            pl_failed >>
       ELSE /\ pl_trace' = Append(pl_trace, pass)
            /\ algsimp_runs' = IF IsSimplifier(pass)
                               THEN Append(algsimp_runs,
                                           [ pass |-> pass,
                                             options |-> alg_sim_options,
                                             at |-> Len(pl_trace) + 1 ])
                               ELSE algsimp_runs
            /\ \/ \E g \in PassOutcomes(pass, hlo_module) :
                    /\ hlo_module' = g
                    /\ pl_verifier_runs' =
                          IF last THEN VerifiedAt(name, "end", runs0) ELSE runs0
                    /\ IF last /\ Rejects(name, g)
                       THEN /\ pl_status' = VerifierError
                            /\ pl_pc' = "error"
                            /\ UNCHANGED pl_idx
                       ELSE /\ IF last
                               THEN pl_pc' = AfterStage(stage) /\ pl_idx' = 1
                               ELSE pl_pc' = stage /\ pl_idx' = pl_idx + 1
                            /\ UNCHANGED pl_status
                    /\ UNCHANGED pl_failed
               \/ /\ \E e \in PassErrors : pl_status' = e
                  /\ pl_failed' = << [stage |-> stage, pass |-> pass] >>
                  /\ pl_pc' = AfterFailure(stage)
                  /\ pl_idx' = 1
                  /\ pl_verifier_runs' = runs0
                  /\ UNCHANGED hlo_module
    /\ UNCHANGED << env_MHA, xla_gpu_normalize_layouts,
                    xla_gpu_enable_fast_min_max, use_mha, alg_sim_options,
                    base_status >>

\* mha_fusion_pipeline.Run(hlo_module)
RunMhaFusionPipeline ==
    /\ UNCHANGED << emit_vars, canon_vars >>
    /\ pl_pc = "mha"
    /\ RunPass("mha", MhaPasses(xla_gpu_normalize_layouts))

\* pre_pipeline.Run(hlo_module)
RunPrePipeline ==
    /\ UNCHANGED << emit_vars, canon_vars >>
    /\ pl_pc = "pre"
    /\ RunPass("pre", PrePasses)

\* post_pipeline.Run(hlo_module)
RunPostPipeline ==
    /\ UNCHANGED << emit_vars, canon_vars >>
    /\ pl_pc = "post"
    /\ RunPass("post", PostPasses)

\* TF_RETURN_IF_ERROR(GpuCompiler::OptimizeHloPostLayoutAssignment(...))
RunBaseOptimizer ==
    /\ UNCHANGED << emit_vars, canon_vars >>
    /\ pl_pc = "base"
    /\ pl_trace' = Append(pl_trace, BaseOptimizer)
    /\ \/ /\ hlo_module' \in BaseResults(hlo_module)
          /\ base_status' = "OK"
          /\ pl_pc' = AfterStage("base")
          /\ UNCHANGED pl_status
          /\ UNCHANGED pl_failed
       \/ /\ \E e \in PassErrors : base_status' = e /\ pl_status' = e
          /\ pl_failed' = << [stage |-> "base", pass |-> BaseOptimizer] >>
          /\ pl_pc' = AfterFailure("base")
          /\ UNCHANGED hlo_module
    /\ UNCHANGED << env_MHA, xla_gpu_normalize_layouts,
                    xla_gpu_enable_fast_min_max, use_mha, alg_sim_options,
                    pl_idx, algsimp_runs, pl_verifier_runs >>

\* return OkStatus()
ReturnOkStatus ==
    /\ UNCHANGED << emit_vars, canon_vars >>
    /\ pl_pc = "return"
    /\ pl_status' = "OK"
    /\ pl_pc' = "ok"
    /\ UNCHANGED << env_MHA, xla_gpu_normalize_layouts,
                    xla_gpu_enable_fast_min_max, hlo_module, use_mha,
                    alg_sim_options, pl_idx, pl_trace, base_status,
                    algsimp_runs, pl_failed, pl_verifier_runs >>

PLNext ==
    \/ ReadMHAFlag
    \/ RunMhaFusionPipeline
    \/ RunPrePipeline
    \/ RunBaseOptimizer
    \/ RunPostPipeline
    \/ ReturnOkStatus

\* No call of OptimizeHloPostLayoutAssignment is running.
PLIdle ==
    /\ env_MHA = "unset"
    /\ xla_gpu_normalize_layouts = FALSE
    /\ xla_gpu_enable_fast_min_max = FALSE
    /\ hlo_module = [ mha_pattern |-> FALSE, fmha_call |-> FALSE,
                      triangular_solve |-> FALSE,
                      triangular_solve_call |-> FALSE,
                      well_formed |-> TRUE ]
    /\ pl_pc = "idle"
    /\ use_mha = TRUE
    /\ alg_sim_options = DefaultAlgSimOptions
    /\ pl_idx = 1
    /\ pl_status = "none"
    /\ pl_trace = << >>
    /\ base_status = "none"
    /\ algsimp_runs = << >>
    /\ pl_failed = << >>
    /\ pl_verifier_runs = << >>

\* No call of CompileTargetBinary is running.
EmitIdle ==
    /\ debug_module = FALSE
    /\ prefix = << "a" >>
    /\ xla_gpu_llvm_ir_file = << >>
    /\ valid_ir = {}
    /\ pc = "call"
    /\ matched = 0
    /\ loaded_module = << >>
    /\ selected_module = "unset"
    /\ spir = << >>
    /\ ret = NoResult
    /\ advisory = FALSE
    /\ parsed_files = << >>
    /\ lowering_calls = << >>
    /\ lowering_result = NoResult
    /\ prev_matched = -1

(***************************************************************************)
(* OptimizeHloConvolutionCanonicalization.  The graph is abstracted to the *)
(* kinds of node the stage's passes look for: one convolution, one other   *)
(* floating-point instruction (a dot), a solver call, the tuple            *)
(* scaffolding and the foldable constants the convolution rewrite leaves,  *)
(* a convert that the motion passes move up or down, and a number of       *)
(* pending algebraic simplifications.                                      *)
(***************************************************************************)
ElementTypes == { "BF16", "F32" }

\* The graphs the stage is called with.
CanonGraphs ==
    { [ conv |-> c.kind, conv_operand |-> c.operand, conv_output |-> c.output,
        op_operand |-> "BF16", op_output |-> o,
        solver |-> s, tuple |-> FALSE, foldable |-> FALSE,
        convert |-> cv, simplifiable |-> n, well_formed |-> TRUE ] :
        c \in { [kind |-> "none", operand |-> "F32", output |-> "F32"],
                [kind |-> "hlo", operand |-> "BF16", output |-> "BF16"],
                [kind |-> "hlo", operand |-> "BF16", output |-> "F32"],
                [kind |-> "hlo", operand |-> "F32", output |-> "F32"] },
        o \in ElementTypes, s \in BOOLEAN,
        cv \in { "none", "up", "down" }, n \in 0..IterationCap }

\* hlo.opcode() of the graph's instructions: the convolution while it is an
\* HLO convolution (a custom call once rewritten), and the dot.
ConvOpcode(g) ==
    IF g.conv = "hlo" THEN "kConvolution"
    ELSE IF g.conv = "none" THEN "none" ELSE "kCustomCall"

OtherOpcode == "kDot"

Opcodes == { "kConvolution", "kCustomCall", "kDot" }

\* ConvBfloat16Support(): FloatSupport(BF16), is_conv_bf16_supported_(true).
\* The constructor takes no argument: the target capability is not read.
ConvBfloat16Support ==
    [ low_precision_type |-> "BF16", is_conv_bf16_supported_ |-> TRUE ]

SupportsLowPrecisionOperand(support, opcode) ==
    (opcode # "kConvolution") \/ support.is_conv_bf16_supported_

SupportsLowPrecisionOutput(support, opcode) ==
    (opcode # "kConvolution") \/ support.is_conv_bf16_supported_

\* A bug: mixed precision is reported from the low-precision setting.
SupportsMixedPrecisionsFromSetting(support, opcode) ==
    (opcode # "kConvolution") \/ support.is_conv_bf16_supported_

SupportsMixedPrecisions(support, opcode) == opcode # "kConvolution"

\* What FloatNormalization asks the policy object about an instruction.
PolicyQuery(support, opcode) ==
    [ opcode |-> opcode,
      operand |-> SupportsLowPrecisionOperand(support, opcode),
      output |-> SupportsLowPrecisionOutput(support, opcode),
      mixed |-> SupportsMixedPrecisions(support, opcode) ]

\* FloatNormalization on one instruction: a low-precision operand or output
\* the policy does not support is widened to F32, and so are the
\* low-precision sides of a mixed-precision instruction when the policy
\* does not allow mixed precision.
NormalizeTypes(support, opcode, operand, output) ==
    LET q == PolicyQuery(support, opcode)
        a == IF operand = support.low_precision_type /\ ~q.operand
             THEN "F32" ELSE operand
        o == IF output = support.low_precision_type /\ ~q.output
             THEN "F32" ELSE output
    IN IF a # o /\ ~q.mixed THEN << "F32", "F32" >> ELSE << a, o >>

FloatNormalization(support, g) ==
    LET c == IF g.conv = "none"
             THEN << g.conv_operand, g.conv_output >>
             ELSE NormalizeTypes(support, ConvOpcode(g), g.conv_operand,
                                 g.conv_output)
        d == NormalizeTypes(support, OtherOpcode, g.op_operand, g.op_output)
    IN [g EXCEPT !.conv_operand = c[1], !.conv_output = c[2],
                 !.op_operand = d[1], !.op_output = d[2]]

\* The effect of one application of a pass on the graph.
ApplyPass(pass, support, g) ==
    CASE pass = "FloatNormalization" -> FloatNormalization(support, g)
      [] pass = "GpusolverRewriter" -> [g EXCEPT !.solver = FALSE]
      [] pass = "GpuConvRewriter" ->
            IF g.conv = "hlo"
            THEN [g EXCEPT !.conv = "custom_call", !.tuple = TRUE]
            ELSE g
      [] pass = "GpuConvPaddingLegalization" ->
            IF g.conv = "custom_call"
            THEN [g EXCEPT !.conv = "legalized", !.foldable = TRUE]
            ELSE g
      [] pass = "TupleSimplifier" -> [g EXCEPT !.tuple = FALSE]
      [] pass = "AlgebraicSimplifier" ->
            IF g.simplifiable > 0
            THEN [g EXCEPT !.simplifiable = g.simplifiable - 1]
            ELSE g
      [] pass = "ReshapeMover" ->
            IF g.convert = "down" THEN [g EXCEPT !.convert = "up"] ELSE g
      [] pass = "ConvertMover" ->
            IF g.convert = "up" THEN [g EXCEPT !.convert = "down"] ELSE g
      [] pass = "HloConstantFolding" -> [g EXCEPT !.foldable = FALSE]
      [] OTHER -> g

\* The graphs a pass can leave: its rewrite, and, for a pass with a defect,
\* its rewrite left structurally malformed.
CanonOutcomes(pass, support, g) ==
    LET r == ApplyPass(pass, support, g) IN
    IF r = g THEN { g } ELSE { r, [r EXCEPT !.well_formed = FALSE] }

Once(pass) == [ pass |-> pass, fix |-> FALSE ]
ToFixedPoint(pass) == [ pass |-> pass, fix |-> TRUE ]
Single(pass) == [ name |-> pass, fix |-> FALSE, body |-> << Once(pass) >> ]

\* A bug: the solver rewriter is added after the convolution rewriter.
CanonMembersConvFirst ==
    << Single("FloatNormalization"),
       Single("GpuConvRewriter"),
       Single("GpusolverRewriter"),
       Single("CudnnFusedConvRewriter"),
       Single("GpuConvPaddingLegalization"),
       Single("CallInliner"),
       Single("TupleSimplifier"),
       [ name |-> "HloPassFix<AlgebraicSimplifier>", fix |-> TRUE,
         body |-> << Once("AlgebraicSimplifier") >> ],
       [ name |-> "reshape_mover_after_conv_canonicalization", fix |-> TRUE,
         body |-> << ToFixedPoint("ReshapeMover"),
                     Once("AlgebraicSimplifier") >> ],
       [ name |-> "simplify_after_conv_canonicalization", fix |-> TRUE,
         body |-> << Once("ConvertMover"), Once("AlgebraicSimplifier") >> ],
       Single("HloConstantFolding") >>

\* The members added to the pipeline "conv_canonicalization", in order: a
\* pass, a pass run to a fixed point, or a sub-pipeline run to a fixed point.
CanonMembers ==
    << Single("FloatNormalization"),
       Single("GpusolverRewriter"),
       Single("GpuConvRewriter"),
       Single("CudnnFusedConvRewriter"),
       Single("GpuConvPaddingLegalization"),
       Single("CallInliner"),
       Single("TupleSimplifier"),
       [ name |-> "HloPassFix<AlgebraicSimplifier>", fix |-> TRUE,
         body |-> << Once("AlgebraicSimplifier") >> ],
       [ name |-> "reshape_mover_after_conv_canonicalization", fix |-> TRUE,
         body |-> << ToFixedPoint("ReshapeMover"),
                     Once("AlgebraicSimplifier") >> ],
       [ name |-> "simplify_after_conv_canonicalization", fix |-> TRUE,
         body |-> << Once("ConvertMover"), Once("AlgebraicSimplifier") >> ],
       Single("HloConstantFolding") >>

\* A bug: the loop goes on to the cap whether or not the graph changed.
ContinueToCap(fix, changed, iter) == fix /\ iter < IterationCap

\* The fixed-point runner applies its unit again when the last application
\* changed the graph and the cap is not reached.
ContinueLoop(fix, changed, iter) == fix /\ changed /\ iter < IterationCap

\* The record of a fixed-point loop that stopped.
LoopStop(unit, iters, changed, g) ==
    [ unit |-> unit, iters |-> iters,
      stop |-> IF changed THEN "cap" ELSE "converged", result |-> g ]

CanonInit ==
    /\ gpu_version \in [ conv_bf16 : BOOLEAN ]
    /\ canon_hlo_module \in CanonGraphs
    /\ cn_pc = "start"
    /\ conv_bf16_support = << >>
    /\ cn_member = 1
    /\ cn_iter = 1
    /\ cn_body = 1
    /\ cn_sub = 1
    /\ cn_iter_changed = FALSE
    /\ cn_status = "none"
    /\ cn_trace = << >>
    /\ cn_loops = << >>
    /\ cn_verifier_runs = << >>
    /\ cn_policy_queries = {}
    /\ cn_input = canon_hlo_module
    /\ cn_run = 1
    /\ cn_first = << >>

\* The policy object is built and the passes are added (lines 101-151);
\* pipeline.Run begins with the pipeline's invariant checkers.
CanonStart ==
    /\ UNCHANGED << emit_vars, pl_vars >>
    /\ cn_pc = "start"
    /\ conv_bf16_support' = << ConvBfloat16Support >>
    /\ cn_verifier_runs' =
          VerifiedAt("conv_canonicalization", "start", cn_verifier_runs)
    /\ IF Rejects("conv_canonicalization", canon_hlo_module)
       THEN cn_status' = VerifierError /\ cn_pc' = "error"
       ELSE cn_pc' = "run" /\ UNCHANGED cn_status
    /\ UNCHANGED << gpu_version, canon_hlo_module, cn_member, cn_iter,
                    cn_body, cn_sub, cn_iter_changed, cn_trace, cn_loops,
                    cn_policy_queries, cn_input, cn_run, cn_first >>

\* One application of the pass the pipeline has reached, which succeeds.
CanonApplyPass ==
    /\ UNCHANGED << emit_vars, pl_vars >>
    /\ cn_pc = "run"
    /\ LET m == CanonMembers[cn_member]
           e == m.body[cn_body]
           support == conv_bf16_support[1]
           changed == ApplyPass(e.pass, support, canon_hlo_module)
                          # canon_hlo_module
           inner_more == ContinueLoop(e.fix, changed, cn_sub)
           iter_changed == cn_iter_changed \/ changed \/ cn_sub > 1
           body_done == ~inner_more /\ cn_body = Len(m.body)
           outer_more == body_done /\ ContinueLoop(m.fix, iter_changed, cn_iter)
           member_done == body_done /\ ~outer_more
       IN
       /\ \E g \in CanonOutcomes(e.pass, support, canon_hlo_module) :
            /\ canon_hlo_module' = g
            /\ cn_loops' =
                 LET inner == IF e.fix /\ ~inner_more
                              THEN Append(cn_loops,
                                          LoopStop(e.pass, cn_sub, changed, g))
                              ELSE cn_loops
                 IN IF m.fix /\ member_done
                    THEN Append(inner,
                                LoopStop(m.name, cn_iter, iter_changed, g))
                    ELSE inner
       /\ cn_trace' = Append(cn_trace,
                             [ pass |-> e.pass, member |-> m.name,
                               iter |-> cn_iter, sub |-> cn_sub,
                               changed |-> changed, failed |-> FALSE ])
       /\ cn_policy_queries' =
            IF e.pass = "FloatNormalization"
            THEN cn_policy_queries
                   \cup { PolicyQuery(support, oc) :
                            oc \in { ConvOpcode(canon_hlo_module), OtherOpcode }
                                      \ { "none" } }
            ELSE cn_policy_queries
       /\ IF inner_more
          THEN /\ cn_sub' = cn_sub + 1
               /\ UNCHANGED << cn_member, cn_iter, cn_body, cn_iter_changed,
                               cn_pc >>
          ELSE /\ cn_sub' = 1
               /\ IF ~body_done
                  THEN /\ cn_body' = cn_body + 1
                       /\ cn_iter_changed' = iter_changed
                       /\ UNCHANGED << cn_member, cn_iter, cn_pc >>
                  ELSE /\ cn_body' = 1
                       /\ cn_iter_changed' = FALSE
                       /\ IF outer_more
                          THEN /\ cn_iter' = cn_iter + 1
                               /\ UNCHANGED << cn_member, cn_pc >>
                          ELSE /\ cn_iter' = 1
                               /\ IF cn_member = Len(CanonMembers)
                                  THEN cn_pc' = "finish" /\ UNCHANGED cn_member
                                  ELSE /\ cn_member' = cn_member + 1
                                       /\ UNCHANGED cn_pc
    /\ UNCHANGED << gpu_version, conv_bf16_support, cn_status,
                    cn_verifier_runs, cn_input, cn_run, cn_first >>

\* A bug: a failed run hands the caller's graph back as it was passed in.
GraphRestoredOnFailure(input, g) == input

\* The graph after a failed run: Run rewrites *hlo_module in place and
\* nothing restores it, so it is the graph the earlier passes left.
GraphAfterFailure(input, g) == g

\* The pass the pipeline has reached fails: Run returns its status and
\* TF_RETURN_IF_ERROR returns it from the function.  The graph keeps what
\* the earlier passes did to it.
CanonPassFails ==
    /\ UNCHANGED << emit_vars, pl_vars >>
    /\ cn_pc = "run"
    /\ LET m == CanonMembers[cn_member]
           e == m.body[cn_body]
       IN cn_trace' = Append(cn_trace,
                             [ pass |-> e.pass, member |-> m.name,
                               iter |-> cn_iter, sub |-> cn_sub,
                               changed |-> FALSE, failed |-> TRUE ])
    /\ \E e \in PassErrors : cn_status' = e
    /\ cn_pc' = AfterFailure("canon")
    /\ canon_hlo_module' = GraphAfterFailure(cn_input, canon_hlo_module)
    /\ UNCHANGED << gpu_version, conv_bf16_support,
                    cn_member, cn_iter, cn_body, cn_sub, cn_iter_changed,
                    cn_loops, cn_verifier_runs, cn_policy_queries, cn_input,
                    cn_run, cn_first >>

\* The end of pipeline.Run: the invariant checkers run on the result, then
\* return OkStatus().
CanonFinish ==
    /\ UNCHANGED << emit_vars, pl_vars >>
    /\ cn_pc = "finish"
    /\ cn_verifier_runs' =
          VerifiedAt("conv_canonicalization", "end", cn_verifier_runs)
    /\ IF Rejects("conv_canonicalization", canon_hlo_module)
       THEN cn_status' = VerifierError /\ cn_pc' = "error"
       ELSE cn_status' = "OK" /\ cn_pc' = "ok"
    /\ UNCHANGED << gpu_version, canon_hlo_module, conv_bf16_support,
                    cn_member, cn_iter, cn_body, cn_sub, cn_iter_changed,
                    cn_trace, cn_loops, cn_policy_queries, cn_input, cn_run,
                    cn_first >>

\* The caller runs the stage again on the graph the first run returned.
CanonRunAgain ==
    /\ UNCHANGED << emit_vars, pl_vars >>
    /\ cn_pc = "ok"
    /\ cn_run = 1
    /\ cn_first' = << [ converged |->
                          \A k \in 1..Len(cn_loops) :
                              cn_loops[k].stop = "converged",
                        output |-> canon_hlo_module ] >>
    /\ cn_run' = 2
    /\ cn_input' = canon_hlo_module
    /\ cn_pc' = "start"
    /\ conv_bf16_support' = << >>
    /\ cn_member' = 1
    /\ cn_status' = "none"
    /\ cn_trace' = << >>
    /\ cn_loops' = << >>
    /\ cn_verifier_runs' = << >>
    /\ cn_policy_queries' = {}
    /\ UNCHANGED << gpu_version, canon_hlo_module, cn_iter, cn_body, cn_sub,
                    cn_iter_changed >>

CanonNext ==
    \/ CanonStart
    \/ CanonApplyPass
    \/ CanonPassFails
    \/ CanonFinish
    \/ CanonRunAgain

\* No call of OptimizeHloConvolutionCanonicalization is running.
CanonIdle ==
    /\ gpu_version = [ conv_bf16 |-> TRUE ]
    /\ canon_hlo_module =
          [ conv |-> "none", conv_operand |-> "F32", conv_output |-> "F32",
            op_operand |-> "BF16", op_output |-> "BF16",
            solver |-> FALSE, tuple |-> FALSE, foldable |-> FALSE,
            convert |-> "none", simplifiable |-> 0, well_formed |-> TRUE ]
    /\ cn_pc = "idle"
    /\ conv_bf16_support = << >>
    /\ cn_member = 1
    /\ cn_iter = 1
    /\ cn_body = 1
    /\ cn_sub = 1
    /\ cn_iter_changed = FALSE
    /\ cn_status = "none"
    /\ cn_trace = << >>
    /\ cn_loops = << >>
    /\ cn_verifier_runs = << >>
    /\ cn_policy_queries = {}
    /\ cn_input = canon_hlo_module
    /\ cn_run = 1
    /\ cn_first = << >>

\* The binary emitter alone.
Init == EmitInit /\ PLIdle /\ CanonIdle

Next == EmitNext

Spec == Init /\ [][Next]_vars

\* The post-layout stage alone: no call of CompileTargetBinary is running.
InitPostLayout == PLInit /\ EmitIdle /\ CanonIdle

NextPostLayout == PLNext

SpecPostLayout == InitPostLayout /\ [][NextPostLayout]_vars

\* The canonicalization stage alone.
InitCanon == CanonInit /\ PLIdle /\ EmitIdle

NextCanon == CanonNext

SpecCanon == InitCanon /\ [][NextCanon]_vars

\* The two optimization stages, one call of either.
InitStages == InitPostLayout \/ InitCanon

NextStages == PLNext \/ CanonNext

SpecStages == InitStages /\ [][NextStages]_vars

(***************************************************************************)
(* Properties of the Binary Emitter.  The notions the claims use are       *)
(* stated here independently of the operators above.                       *)
(***************************************************************************)
\* b is the basename of path: the suffix of path that holds no "/" and is
\* preceded by a "/" or by the start of path.
IsBasenameOf(b, path) ==
    \E k \in 0..Len(path) :
        /\ b = SubSeq(path, k + 1, Len(path))
        /\ \A i \in 1..Len(b) : b[i] # "/"
        /\ k = 0 \/ path[k] = "/"

\* text begins with pre (text may be longer than pre).
HasPrefix(text, pre) == \E n \in 0..Len(text) : SubSeq(text, 1, n) = pre

\* The candidate's basename starts with the module's name prefix.
IsCandidate(path) ==
    \E k \in 0..Len(path) :
        /\ IsBasenameOf(SubSeq(path, k + 1, Len(path)), path)
        /\ HasPrefix(SubSeq(path, k + 1, Len(path)), prefix)

NoCandidate ==
    \A i \in 1..Len(xla_gpu_llvm_ir_file) : ~IsCandidate(xla_gpu_llvm_ir_file[i])

LookupDone == pc # "call"
Selected == pc \in {"selected", "compiled", "done"}
PastEmission == pc \in {"compiled", "done"}
LoweringInvoked == lowering_calls # << >>

\* An override was loaded: parseIRFile was called on a file holding valid IR.
OverrideLoaded == parsed_files # << >> /\ parsed_files[1] \in valid_ir

\* The byte a char converts to.
ByteOf(c) == IF c < 0 THEN c + 256 ELSE c

\* C1: when the lookup runs, it selects the first candidate, in list order,
\* whose basename starts with the module's name prefix (a prefix match, the
\* basename may be longer), std::end when there is none; and a repeated call
\* on the same candidate list and prefix selects the same candidate.
C1_FirstPrefixMatchSelected ==
    (debug_module /\ LookupDone) =>
        /\ matched \in 1..(Len(xla_gpu_llvm_ir_file) + 1)
        /\ matched <= Len(xla_gpu_llvm_ir_file)
              => IsCandidate(xla_gpu_llvm_ir_file[matched])
        /\ \A j \in 1..(matched - 1) : ~IsCandidate(xla_gpu_llvm_ir_file[j])
        /\ prev_matched # -1 => matched = prev_matched

\* C1 witness: on a repeated call the second of two candidates is selected;
\* the first does not match, the second has a directory part and a basename
\* longer than the prefix.
C1_Witness ==
    /\ debug_module /\ pc = "done"
    /\ Len(xla_gpu_llvm_ir_file) = 2
    /\ matched = 2 /\ prev_matched = 2
    /\ xla_gpu_llvm_ir_file[2] = <<"b", "/", "a", "b">>
    /\ prefix = <<"a">>

\* C2: exactly one module is selected for emission: the override when one
\* was loaded, otherwise the in-memory module; the lowering routine is
\* invoked at most once, and only ever on the selected one, never on the
\* in-memory module when an override was loaded.
C2_ExactlyOneModuleSelected ==
    /\ Selected =>
          /\ selected_module \in {"llvm_module", "loaded_module"}
          /\ (selected_module = "loaded_module") <=> OverrideLoaded
    /\ Len(lowering_calls) <= 1
    /\ \A i \in 1..Len(lowering_calls) :
          lowering_calls[i] =
              IF OverrideLoaded THEN "loaded_module" ELSE "llvm_module"

\* C2 witness: an override was loaded and the lowering routine ran on it.
C2_Witness ==
    /\ pc = "done" /\ ret.kind = "ok"
    /\ OverrideLoaded
    /\ lowering_calls = << "loaded_module" >>

\* C3 (as claimed): whenever the candidate list is non-empty and no
\* candidate matches, the advisory is emitted, nothing aborts and the
\* lowering routine runs on the in-memory module.
C3_AdvisoryWheneverNoMatch ==
    (xla_gpu_llvm_ir_file # << >> /\ NoCandidate) =>
        /\ pc # "aborted"
        /\ pc = "done" =>
              /\ advisory
              /\ lowering_calls = << "llvm_module" >>

\* C3 (amended): when the debug-provenance module is non-null, the
\* candidate list is non-empty and no candidate matches, the advisory is
\* emitted, no file is parsed, nothing aborts, the in-memory module is
\* selected and the lowering routine runs on it.
C3_AdvisoryWhenNoMatchAndModule ==
    (debug_module /\ xla_gpu_llvm_ir_file # << >> /\ NoCandidate) =>
        /\ pc # "aborted"
        /\ parsed_files = << >>
        /\ LookupDone => advisory
        /\ Selected => selected_module = "llvm_module"
        /\ PastEmission => lowering_calls = << "llvm_module" >>

\* C3 witness: a two-candidate list without a match, the advisory logged,
\* and the call returned the binary lowered from the in-memory module.
C3_Witness ==
    /\ debug_module /\ Len(xla_gpu_llvm_ir_file) = 2 /\ NoCandidate
    /\ advisory
    /\ pc = "done" /\ ret.kind = "ok"
    /\ lowering_calls = << "llvm_module" >>

\* C4 (as claimed): with an empty candidate list and a non-null debug
\* module, the call returns a non-empty binary with an empty metadata
\* string, lowered from the in-memory module, with no advisory.
C4_EmptyListNonEmptyBinary ==
    (debug_module /\ xla_gpu_llvm_ir_file = << >> /\ pc = "done") =>
        /\ ~advisory
        /\ lowering_calls = << "llvm_module" >>
        /\ ret.kind = "ok"
        /\ ret.metadata = ""
        /\ ret.binary # << >>

\* C4 (amended): with an empty candidate list and a non-null debug module
\* the lookup emits no advisory, parses nothing and does not abort, and the
\* lowering routine runs on the in-memory module; when the routine succeeds
\* the call returns the bytes of its output (non-empty exactly when the
\* output is) with an empty metadata string, and when it fails the call
\* returns its error.
C4_EmptyListUsesInMemoryModule ==
    (debug_module /\ xla_gpu_llvm_ir_file = << >>) =>
        /\ ~advisory
        /\ parsed_files = << >>
        /\ pc # "aborted"
        /\ Selected => selected_module = "llvm_module"
        /\ PastEmission => lowering_calls = << "llvm_module" >>
        /\ pc = "done" =>
              /\ lowering_calls = << "llvm_module" >>
              /\ lowering_result.kind = "ok" =>
                    /\ ret.kind = "ok"
                    /\ ret.metadata = ""
                    /\ Len(ret.binary) = Len(lowering_result.binary)
                    /\ \A i \in 1..Len(ret.binary) :
                          ret.binary[i] = ByteOf(lowering_result.binary[i])
              /\ lowering_result.kind = "error" =>
                    /\ ret.kind = "error"
                    /\ ret.status = lowering_result.status

\* C4 witness: empty list, non-null debug module, and a non-empty binary
\* returned with empty metadata.
C4_Witness ==
    /\ debug_module /\ xla_gpu_llvm_ir_file = << >>
    /\ pc = "done" /\ ret.kind = "ok"
    /\ ret.metadata = "" /\ Len(ret.binary) = 2
    /\ lowering_calls = << "llvm_module" >>

C7_BinaryIsLoweringOutput ==
    (pc = "done" /\ ret.kind = "ok") =>
        LET out == IF LoweringInvoked THEN lowering_result.binary ELSE << >> IN
        /\ ret.metadata = ""
        /\ Len(ret.binary) = Len(out)
        /\ \A i \in 1..Len(out) : ret.binary[i] = ByteOf(out[i])

\* C7 witness: the override module was lowered to a two-character text with
\* a negative char first, returned as the bytes 255, 83.
C7_Witness ==
    /\ pc = "done" /\ ret.kind = "ok"
    /\ selected_module = "loaded_module"
    /\ lowering_result.binary = << -1, 83 >>
    /\ ret.binary = << 255, 83 >>

\* C8: when the lowering routine fails the call has returned that failure
\* as its error: never a success, never a binary.
C8_LoweringFailurePropagates ==
    lowering_result.kind = "error" =>
        /\ pc = "done"
        /\ ret.kind = "error"
        /\ ret.status = lowering_result.status
        /\ ret.binary = << >>

\* C8 witness: the lowering routine failed with UNIMPLEMENTED.
C8_Witness ==
    /\ lowering_result.kind = "error"
    /\ lowering_result.status = "UNIMPLEMENTED"
    /\ pc = "done"

(***************************************************************************)
(* Properties of the Post-Layout Stage.                                    *)
(***************************************************************************)
\* The attention-fusion flag as the environment gives it.
FlagDisabled == env_MHA \in {"0", "false"}
FlagEnabled == env_MHA \in {"unset", "1", "true"}

BaseCalled == \E k \in 1..Len(pl_trace) : pl_trace[k] = BaseOptimizer

\* The passes applied before the base compiler's optimizer was called (all
\* the passes applied so far when it has not been called).
PreStepTrace ==
    IF BaseCalled
    THEN SubSeq(pl_trace, 1,
                (CHOOSE k \in 1..Len(pl_trace) : pl_trace[k] = BaseOptimizer) - 1)
    ELSE pl_trace

IsPrefixOf(s, t) == Len(s) <= Len(t) /\ SubSeq(t, 1, Len(s)) = s

MergeThenFold == << "DotDimensionMerger", "HloConstantFolding" >>

\* C9: with the attention-fusion flag disabled the passes applied before the
\* base compiler's optimizer are dimension-merge then constant-fold and
\* nothing else, the multi-head-attention rewrite is never applied and the
\* fused custom call never appears; with the flag enabled the same two
\* passes are applied last, after other passes, so the disabled path is a
\* strict subset of the enabled one.
C9_DisabledFlagRunsOnlyMergeAndFold ==
    /\ (FlagDisabled /\ pl_pc # "start") =>
          /\ IsPrefixOf(PreStepTrace, MergeThenFold)
          /\ BaseCalled => PreStepTrace = MergeThenFold
          /\ \A k \in 1..Len(pl_trace) : pl_trace[k] # "CudnnFusedMHARewriter"
          /\ ~hlo_module.fmha_call
    /\ (FlagEnabled /\ BaseCalled) =>
          /\ Len(PreStepTrace) > Len(MergeThenFold)
          /\ SubSeq(PreStepTrace, Len(PreStepTrace) - 1, Len(PreStepTrace))
                = MergeThenFold
          /\ \E k \in 1..Len(PreStepTrace) :
                PreStepTrace[k] \notin Range(MergeThenFold)

\* C9 witness: the flag is disabled, the graph holds a multi-head-attention
\* pattern, and the stage has returned OkStatus after dimension-merge,
\* constant-fold, the base optimizer and the triangular-solve rewrite.
C9_Witness ==
    /\ FlagDisabled /\ hlo_module.mha_pattern
    /\ pl_pc = "ok" /\ pl_status = "OK"
    /\ pl_trace = MergeThenFold \o << BaseOptimizer, "TriangularSolveRewriter" >>

\* C10: the base compiler's optimizer is called only right after the
\* pre-sub-pipeline has applied both its passes, and the triangular-solve
\* rewrite is applied only right after the base compiler's optimizer has
\* returned successfully: never before it, never without it.
C10_PreThenBaseThenTriangularSolve ==
    /\ \A k \in 1..Len(pl_trace) :
          pl_trace[k] = BaseOptimizer =>
              /\ k >= 3
              /\ pl_trace[k - 2] = "DotDimensionMerger"
              /\ pl_trace[k - 1] = "HloConstantFolding"
    /\ \A k \in 1..Len(pl_trace) :
          pl_trace[k] = "TriangularSolveRewriter" =>
              /\ k >= 2
              /\ pl_trace[k - 1] = BaseOptimizer
              /\ base_status = "OK"
    /\ hlo_module.triangular_solve_call => base_status = "OK"
    /\ pl_pc = "post" => base_status = "OK"

\* C10 witness: the stage returned OkStatus with the attention pipeline run,
\* and the triangular-solve rewrite, applied last, produced its custom call.
C10_Witness ==
    /\ pl_pc = "ok" /\ use_mha
    /\ hlo_module.triangular_solve_call
    /\ Len(pl_trace) >= 4
    /\ pl_trace[Len(pl_trace)] = "TriangularSolveRewriter"
    /\ pl_trace[Len(pl_trace) - 1] = BaseOptimizer

\* The position in pl_trace of the attention rewrite, 0 when it has not run.
MhaRewriteAt ==
    IF \E k \in 1..Len(pl_trace) : pl_trace[k] = "CudnnFusedMHARewriter"
    THEN CHOOSE k \in 1..Len(pl_trace) : pl_trace[k] = "CudnnFusedMHARewriter"
    ELSE 0

\* C19: every algebraic-simplifier run of the attention-fusion pipeline is
\* configured layout-sensitive and with NaN propagation through min/max
\* equal to the negation of the fast-min-max debug flag (disabled when
\* fast-min-max is requested, enabled otherwise); the run before and the run
\* after the attention rewrite use the same options.
C19_NanPropagationIsNotFastMinMax ==
    /\ \A k \in 1..Len(algsimp_runs) :
          /\ algsimp_runs[k].options.is_layout_sensitive
          /\ algsimp_runs[k].options.minmax_propagate_nan
                = ~xla_gpu_enable_fast_min_max
          /\ xla_gpu_enable_fast_min_max
                => ~algsimp_runs[k].options.minmax_propagate_nan
    /\ \A j, k \in 1..Len(algsimp_runs) :
          algsimp_runs[j].options = algsimp_runs[k].options

\* C19 witness: fast-min-max is requested, and the simplifier has run once
\* before and once after the attention rewrite, both with NaN propagation
\* disabled.
C19_Witness ==
    /\ xla_gpu_enable_fast_min_max
    /\ Len(algsimp_runs) = 2
    /\ MhaRewriteAt > 0
    /\ algsimp_runs[1].at < MhaRewriteAt
    /\ algsimp_runs[2].at > MhaRewriteAt
    /\ ~algsimp_runs[1].options.minmax_propagate_nan
    /\ ~algsimp_runs[2].options.minmax_propagate_nan

\* C20: when the debug module is null, the call performs no override lookup
\* and no file parse, whatever the candidate list and the files hold: no
\* advisory is emitted, the call does not abort, the in-memory module is the
\* selected one, the lowering routine is not invoked, and the call returns
\* an empty binary with empty metadata.
C20_NullModuleSkipsLookup ==
    ~debug_module =>
        /\ matched = 0
        /\ loaded_module = << >>
        /\ parsed_files = << >>
        /\ ~advisory
        /\ pc # "aborted"
        /\ Selected => selected_module = "llvm_module"
        /\ lowering_calls = << >>
        /\ pc = "done" => ret = OkResult("", << >>)

\* C20 witness: a null debug module, a candidate list whose first entry
\* matches the name prefix and holds malformed IR, and the call has
\* returned the empty binary.
C20_Witness ==
    /\ ~debug_module
    /\ xla_gpu_llvm_ir_file # << >>
    /\ IsCandidate(xla_gpu_llvm_ir_file[1])
    /\ xla_gpu_llvm_ir_file[1] \notin valid_ir
    /\ pc = "done"
    /\ ret.kind = "ok" /\ ret.binary = << >>
    /\ selected_module = "llvm_module"

(***************************************************************************)
(* Properties of the Canonicalization Stage.                               *)
(***************************************************************************)
\* The order the stage is to apply its passes in, after the structural
\* verification: each step with the passes that belong to it.
ExpectedCanonOrder ==
    << {"FloatNormalization"}, {"GpusolverRewriter"}, {"GpuConvRewriter"},
       {"CudnnFusedConvRewriter"}, {"GpuConvPaddingLegalization"},
       {"CallInliner"}, {"TupleSimplifier"}, {"AlgebraicSimplifier"},
       {"ReshapeMover", "AlgebraicSimplifier"},
       {"ConvertMover", "AlgebraicSimplifier"}, {"HloConstantFolding"} >>

\* The step of the expected order the k-th application belongs to: the
\* applications of one pipeline member are consecutive, and each new member
\* is the next step.
StepOf(k) ==
    1 + Cardinality({ j \in 2..k : cn_trace[j].member # cn_trace[j - 1].member })

\* The applications so far go through the expected order: each application's
\* pass belongs to its step, and a completed run has reached the last step.
FollowsExpectedOrder ==
    /\ \A k \in 1..Len(cn_trace) :
          /\ StepOf(k) <= Len(ExpectedCanonOrder)
          /\ cn_trace[k].pass \in ExpectedCanonOrder[StepOf(k)]
    /\ cn_pc \in {"finish", "ok"}
          => StepOf(Len(cn_trace)) = Len(ExpectedCanonOrder)

CanonApplied(pass) == \E k \in 1..Len(cn_trace) : cn_trace[k].pass = pass

\* C17: on every run the stage applies its passes in the fixed order:
\* structural verification first, then low-precision normalization,
\* solver-call expansion, convolution rewrite, convolution+activation fusion,
\* padding legalization, call inlining, tuple simplification, the
\* algebraic-simplifier fixed point, the reshape-motion sub-pipeline, the
\* conversion-motion sub-pipeline and constant folding; the solver-call
\* expansion precedes the convolution rewrite and constant folding is last.
C17_FixedPassOrder ==
    /\ cn_trace # << >> =>
          /\ cn_verifier_runs # << >>
          /\ cn_verifier_runs[1] =
                [pipeline |-> "conv_canonicalization", at |-> "start"]
    /\ FollowsExpectedOrder
    /\ \A j, k \in 1..Len(cn_trace) :
          (cn_trace[j].pass = "GpusolverRewriter"
             /\ cn_trace[k].pass = "GpuConvRewriter") => j < k
    /\ CanonApplied("GpuConvRewriter") => CanonApplied("GpusolverRewriter")
    /\ cn_pc \in {"finish", "ok"} =>
          cn_trace[Len(cn_trace)].pass = "HloConstantFolding"

\* C17 witness: a run that applied every step and returned OK, with the
\* algebraic simplifier run more than once in its fixed point.
C17_Witness ==
    /\ cn_pc = "ok"
    /\ \A i \in 1..Len(ExpectedCanonOrder) :
          \E p \in ExpectedCanonOrder[i] : CanonApplied(p)
    /\ \E k \in 1..Len(cn_trace) :
          cn_trace[k].member = "HloPassFix<AlgebraicSimplifier>"
            /\ cn_trace[k].iter = 2

\* The fixed-point runners of the stage: the three pipeline members run
\* under HloPassFix.
FixedPointMembers ==
    { "HloPassFix<AlgebraicSimplifier>",
      "reshape_mover_after_conv_canonicalization",
      "simplify_after_conv_canonicalization" }

\* The applications made by iteration i of member m.
IterationOf(m, i) ==
    { k \in 1..Len(cn_trace) :
        cn_trace[k].member = m /\ cn_trace[k].iter = i }

\* One application of a wrapped unit, as a function of the graph: a pass, a
\* pass run to its fixed point, or a sub-pipeline's passes one after another.
RECURSIVE PassToFixedPoint(_, _, _, _)
PassToFixedPoint(pass, support, g, n) ==
    LET r == ApplyPass(pass, support, g) IN
    IF n = 0 \/ r = g THEN g ELSE PassToFixedPoint(pass, support, r, n - 1)

RECURSIVE BodyOnce(_, _, _, _)
BodyOnce(body, support, g, i) ==
    IF i > Len(body) THEN g
    ELSE BodyOnce(body, support,
                  IF body[i].fix
                  THEN PassToFixedPoint(body[i].pass, support, g, IterationCap)
                  ELSE ApplyPass(body[i].pass, support, g),
                  i + 1)

UnitOnce(unit, g) ==
    IF \E i \in 1..Len(CanonMembers) : CanonMembers[i].name = unit
    THEN LET m == CanonMembers[CHOOSE i \in 1..Len(CanonMembers) :
                                  CanonMembers[i].name = unit]
         IN BodyOnce(m.body, ConvBfloat16Support, g, 1)
    ELSE ApplyPass(unit, ConvBfloat16Support, g)

\* C13: every fixed-point runner of the stage applies its unit at most
\* IterationCap times; it runs an iteration only when the one before
\* reported a change, so it stops at the first iteration that reports
\* changed = false; reaching the cap is not an error: the stage fails only
\* for a failed pass or a failed invariant check; and when a runner stopped
\* by convergence, one more application of its unit to the result changes
\* nothing.
C13_FixedPointRunner ==
    /\ \A k \in 1..Len(cn_trace) :
          /\ cn_trace[k].iter \in 1..IterationCap
          /\ cn_trace[k].sub \in 1..IterationCap
          /\ cn_trace[k].member \notin FixedPointMembers
                => cn_trace[k].iter = 1 /\ cn_trace[k].sub = 1
          /\ cn_trace[k].iter > 1 =>
                \E j \in IterationOf(cn_trace[k].member, cn_trace[k].iter - 1) :
                    j < k /\ cn_trace[j].changed
          /\ cn_trace[k].sub > 1 =>
                /\ cn_trace[k - 1].pass = cn_trace[k].pass
                /\ cn_trace[k - 1].member = cn_trace[k].member
                /\ cn_trace[k - 1].iter = cn_trace[k].iter
                /\ cn_trace[k - 1].sub = cn_trace[k].sub - 1
                /\ cn_trace[k - 1].changed
          /\ \A j \in 1..Len(cn_trace) :
                ( cn_trace[j].pass = cn_trace[k].pass
                  /\ cn_trace[j].member = cn_trace[k].member
                  /\ cn_trace[j].iter = cn_trace[k].iter
                  /\ cn_trace[j].sub = cn_trace[k].sub ) => j = k
    /\ \A l \in 1..Len(cn_loops) :
          /\ cn_loops[l].iters <= IterationCap
          /\ cn_loops[l].stop = "cap" => cn_loops[l].iters = IterationCap
          /\ cn_loops[l].stop = "converged" =>
                UnitOnce(cn_loops[l].unit, cn_loops[l].result)
                    = cn_loops[l].result
    /\ cn_pc = "error" =>
          \/ cn_status = VerifierError
          \/ cn_trace # << >> /\ cn_trace[Len(cn_trace)].failed

\* C13 witness: the stage returned OK although one runner stopped at the
\* cap, and another stopped by convergence in its second iteration.
C13_Witness ==
    /\ cn_pc = "ok"
    /\ \E l \in 1..Len(cn_loops) :
          cn_loops[l].stop = "cap" /\ cn_loops[l].iters = IterationCap
    /\ \E l \in 1..Len(cn_loops) :
          cn_loops[l].stop = "converged" /\ cn_loops[l].iters > 1

\* The two values the policy object's low-precision setting can take.
PolicySettings ==
    { [ low_precision_type |-> "BF16", is_conv_bf16_supported_ |-> b ] :
        b \in BOOLEAN }

\* C18: the policy object affects only convolutions.  For every operation
\* that is not a convolution it reports low-precision operands, low-precision
\* outputs and mixed precision as supported, so normalization leaves the
\* types of such an operation as they were; for a convolution it reports
\* mixed precision as not supported, whatever the low-precision setting.
C18_PolicyAffectsOnlyConvolution ==
    /\ \A q \in cn_policy_queries :
          /\ q.opcode # "kConvolution" => q.operand /\ q.output /\ q.mixed
          /\ q.opcode = "kConvolution" => ~q.mixed
    /\ \A support \in PolicySettings :
          /\ \A oc \in Opcodes \ { "kConvolution" } :
                /\ SupportsLowPrecisionOperand(support, oc)
                /\ SupportsLowPrecisionOutput(support, oc)
                /\ SupportsMixedPrecisions(support, oc)
          /\ ~SupportsMixedPrecisions(support, "kConvolution")
          /\ LET g == FloatNormalization(support, canon_hlo_module) IN
                /\ g.op_operand = canon_hlo_module.op_operand
                /\ g.op_output = canon_hlo_module.op_output
                /\ canon_hlo_module.conv # "hlo" =>
                      /\ g.conv_operand = canon_hlo_module.conv_operand
                      /\ g.conv_output = canon_hlo_module.conv_output
    /\ CanonApplied("FloatNormalization") =>
          /\ canon_hlo_module.op_operand = cn_input.op_operand
          /\ canon_hlo_module.op_output = cn_input.op_output

\* C18 witness: normalization has run on a graph holding a mixed-precision
\* convolution and a low-precision dot: it asked the policy about both, the
\* convolution was normalized and the dot kept its low-precision types.
C18_Witness ==
    /\ CanonApplied("FloatNormalization")
    /\ cn_input.conv = "hlo"
    /\ cn_input.conv_operand = "BF16" /\ cn_input.conv_output = "F32"
    /\ \E q \in cn_policy_queries : q.opcode = "kConvolution"
    /\ \E q \in cn_policy_queries : q.opcode = "kDot"
    /\ canon_hlo_module.conv_operand = "F32"
    /\ canon_hlo_module.op_operand = "BF16"
    /\ canon_hlo_module.op_output = "BF16"

ConvRewritten(g) == g.conv \in { "custom_call", "legalized" }

\* C12: given a graph with one convolution with narrow-float (BF16)
\* operands and a target capability that lacks BF16 convolution support,
\* the stage widens the operands to F32 before the convolution is legalized:
\* the rewritten convolution carries F32 operand types.
C12_UnsupportedBf16ConvWidened ==
    ( /\ cn_run = 1
      /\ cn_input.conv = "hlo"
      /\ cn_input.conv_operand = "BF16"
      /\ ~gpu_version.conv_bf16 )
    => /\ ConvRewritten(canon_hlo_module)
            => canon_hlo_module.conv_operand = "F32"
       /\ CanonApplied("GpuConvRewriter")
            => canon_hlo_module.conv_operand = "F32"

CanonFailed ==
    /\ cn_pc = "error"
    /\ cn_trace # << >>
    /\ cn_trace[Len(cn_trace)].failed

\* The rewrites of the first k applications, applied to the graph g.
RECURSIVE Replay(_, _)
Replay(g, k) ==
    IF k = 0 THEN g
    ELSE IF cn_trace[k].failed THEN Replay(g, k - 1)
    ELSE ApplyPass(cn_trace[k].pass, ConvBfloat16Support, Replay(g, k - 1))

\* C15 as stated: when a step of the stage fails, the failure is returned
\* and the caller's graph does not carry the rewrites of the passes that ran
\* before the failing one.
C15_FailureLeavesGraphUntouched ==
    CanonFailed =>
        /\ cn_status \in PassErrors
        /\ canon_hlo_module = cn_input

\* C15 amended: when a step of the stage fails, the failure is returned
\* immediately (the failing application is the last one, and its status
\* is the stage's status); the only thing returned is the status, and the
\* caller's graph, rewritten in place, carries the rewrites of the passes
\* that ran before the failing one.
C15_FailureReturnedGraphKeepsRewrites ==
    /\ \A k \in 1..Len(cn_trace) : cn_trace[k].failed => k = Len(cn_trace)
    /\ CanonFailed =>
          /\ cn_status \in PassErrors
          /\ [canon_hlo_module EXCEPT !.well_formed = TRUE]
                = Replay(cn_input, Len(cn_trace))
    /\ (cn_trace # << >> /\ cn_trace[Len(cn_trace)].failed) => cn_pc = "error"

\* C15 witness: a pass failed after earlier passes had rewritten the
\* convolution, and the graph left to the caller holds the rewritten
\* convolution.
C15_Witness ==
    /\ CanonFailed
    /\ cn_input.conv = "hlo"
    /\ canon_hlo_module.conv = "custom_call"
    /\ canon_hlo_module # cn_input

\* The first run returned OK with every fixed-point loop stopped by
\* convergence, and the stage is running again on the graph it returned.
SecondRunAfterConvergence ==
    /\ cn_run = 2
    /\ cn_first # << >>
    /\ cn_first[1].converged

\* C16: the stage is idempotent once applied to convergence: when it runs
\* again on its own output, every pass application reports changed = false
\* and the graph stays the one the first run returned.
C16_IdempotentOnceConverged ==
    SecondRunAfterConvergence =>
        /\ \A k \in 1..Len(cn_trace) : ~cn_trace[k].changed
        /\ canon_hlo_module = cn_first[1].output

(***************************************************************************)
(* Properties of both optimization stages.                                 *)
(***************************************************************************)
PLApplied(pass) == \E k \in 1..Len(pl_trace) : pl_trace[k] = pass

\* What runs after each part of the post-layout stage.
RunsAfter(stage) ==
    CASE stage = "mha" ->
            { "DotDimensionMerger", BaseOptimizer, "TriangularSolveRewriter" }
      [] stage = "pre" -> { BaseOptimizer, "TriangularSolveRewriter" }
      [] stage = "base" -> { "TriangularSolveRewriter" }
      [] OTHER -> {}

\* C11: the first failure in a stage short-circuits everything after it.  In
\* the post-layout stage, when a pass of the attention-fusion pipeline or of
\* the pre-sub-pipeline or the base compiler's optimizer fails, the failing
\* application is the last thing run, no later pipeline or external call is
\* run, and the stage returns that error; in the canonicalization stage a
\* failing pass is the last pass applied and the stage returns its error.
C11_FirstFailureShortCircuits ==
    /\ pl_failed # << >> =>
          /\ pl_pc = "error"
          /\ pl_status \in PassErrors
          /\ pl_trace[Len(pl_trace)] = pl_failed[1].pass
          /\ \A p \in RunsAfter(pl_failed[1].stage) : ~PLApplied(p)
          /\ pl_failed[1].stage = "base" => pl_status = base_status
          /\ pl_failed[1].stage \in { "mha", "pre" } => base_status = "none"
    /\ \A k \in 1..Len(cn_trace) :
          cn_trace[k].failed =>
              /\ k = Len(cn_trace)
              /\ cn_pc = "error"
              /\ cn_status \in PassErrors

\* C11 witness: the base compiler's optimizer failed after the
\* attention-fusion pipeline and the pre-sub-pipeline had run; the stage
\* returned the optimizer's error and the triangular-solve pipeline did not
\* run.
C11_Witness ==
    /\ pl_failed # << >>
    /\ pl_failed[1].stage = "base"
    /\ PLApplied("CudnnFusedMHARewriter")
    /\ PLApplied("HloConstantFolding")
    /\ hlo_module.triangular_solve
    /\ pl_pc = "error"
    /\ pl_status = base_status

\* The pipelines the post-layout stage has run to their end.
PipelinesCompleted ==
    { PipelineName(st) : st \in
        { st \in { "mha", "pre", "post" } :
            \/ st = "mha" /\ PLApplied("CudnnFusedMHARewriter")
                          /\ PLApplied("DotDimensionMerger")
            \/ st = "pre" /\ PLApplied(BaseOptimizer)
            \/ st = "post" /\ pl_pc = "ok" } }

VerifiedAround(pipeline, runs) ==
    /\ [pipeline |-> pipeline, at |-> "start"] \in Range(runs)
    /\ [pipeline |-> pipeline, at |-> "end"] \in Range(runs)

\* C14: the structural verifier runs before and after each named pipeline
\* (conv_canonicalization, the multi-head-attention fusion pipeline,
\* post-layout part 1 and part 2), so a stage that returns OK has had every
\* pipeline it ran verified at its start and its end, and the graph it
\* hands on is well-formed.
C14_VerifierAroundEveryPipeline ==
    /\ pl_pc = "ok" =>
          /\ hlo_module.well_formed
          /\ \A name \in PipelinesCompleted :
                VerifiedAround(name, pl_verifier_runs)
    /\ cn_pc = "ok" =>
          /\ canon_hlo_module.well_formed
          /\ VerifiedAround("conv_canonicalization", cn_verifier_runs)

====
